---- MODULE Spec2Model ----
(***************************************************************************)
(* TeleopTwistJoyNode (src/src/pb_teleop_twist_joy.cpp): the joystick      *)
(* callback, its enable/turbo classification, the manual / goal dispatch,  *)
(* the goal throttle, the gimbal integrator and the stop command.          *)
(*                                                                         *)
(* Units.  Axis readings and scale factors are in tenths (10 = 1.0), so a  *)
(* mapped value (reading * scale) is in hundredths and the 0.1 deadzone is *)
(* 10.  Clock readings are in ticks of 0.05 s, so the 0.25 s throttle is 5 *)
(* ticks, 0.1 s is 2 ticks and 0.3 s is 6 ticks.  Accumulated gimbal       *)
(* angles are in (hundredths * ticks).  Every this->now() of one callback  *)
(* returns the same tick.                                                  *)
(***************************************************************************)
EXTENDS Integers, Sequences, FiniteSets, TLC

VARIABLES cfg, now, sent_disable_msg_, pitch, yaw, last_time, last_goal_time,
          goals, out, prev, alive, nsamples

vars == <<cfg, now, sent_disable_msg_, pitch, yaw, last_time, last_goal_time,
          goals, out, prev, alive, nsamples>>

\* ------------------------------------------------------------------ bounds
MaxSamples == 3

\* ------------------------------------------------------- program constants
DEADZONE == 10
THROTTLE == 5
NoTime == -1

\* ------------------------------------------------------------ parameters
\* Values the declared parameters can be set to (constructor, lines 29-99).
ControlModes == {"manual_control", "auto_control", "auto"}

ScaleChassis ==
  [normal |-> [x |-> 5, y |-> 5, z |-> 0], turbo |-> [x |-> 10, y |-> 10, z |-> 0]]

ScaleGimbal ==
  [normal |-> [yaw |-> 5, pitch |-> 5, roll |-> 0],
   turbo  |-> [yaw |-> 10, pitch |-> 10, roll |-> 0]]

\* Axis maps: the default layout (yaw beyond a one-axis sample), a layout with
\* keys left out, and one with indices below the -1 sentinel.
AxisMaps ==
  { [chassis |-> [x |-> 0, y |-> -1, yaw |-> -1],
     gimbal  |-> [yaw |-> 1, pitch |-> -1, roll |-> -1]],
    [chassis |-> [x |-> 0, y |-> 1],
     gimbal  |-> [yaw |-> 1, pitch |-> 0]],
    [chassis |-> [x |-> -2, y |-> 0, yaw |-> -1],
     gimbal  |-> [yaw |-> -2, pitch |-> -1, roll |-> -1]] }

Config(stamped, require, enable, turbo, inverted, mode, maps) ==
  [ publish_stamped_twist |-> stamped,
    require_enable_button |-> require,
    enable_button |-> enable,
    enable_turbo_button |-> turbo,
    inverted_reverse |-> inverted,
    control_mode |-> mode,
    axis_chassis_map |-> maps.chassis,
    axis_gimbal_map |-> maps.gimbal,
    scale_chassis_map |-> ScaleChassis,
    scale_gimbal_map |-> ScaleGimbal ]

DefaultMaps == [chassis |-> [x |-> 0, y |-> -1, yaw |-> -1],
                gimbal  |-> [yaw |-> 1, pitch |-> -1, roll |-> -1]]

\* Every button setting under the default axis layout; every axis layout,
\* control mode and steering convention under an in-range enable/turbo pair;
\* and the stamped publisher in a manual and a goal-directed configuration.
Configs ==
  { Config(FALSE, req, en, tu, FALSE, "manual_control", DefaultMaps) :
      req \in BOOLEAN, en \in {-1, 0, 1}, tu \in {-1, 1} }
  \cup
  { Config(FALSE, TRUE, 0, 1, inv, mode, maps) :
      inv \in BOOLEAN, mode \in ControlModes, maps \in AxisMaps }
  \cup
  { Config(TRUE, TRUE, 0, 1, FALSE, mode, DefaultMaps) :
      mode \in {"manual_control", "auto_control"} }

\* ---------------------------------------------------------------- samples
\* Axis readings -1.0, 0.1 and 1.0; one- and two-element button and axis vectors.
AxisVals == {-10, 1, 10}
Axes == { <<10>>, <<1, 10>>, <<-10, 10>> }
Buttons == { <<0>>, <<0, 1>>, <<1, 0>> }
JoyMsgs == [axes : Axes, buttons : Buttons]

\* Clock time between two deliveries: 0.1 s or 0.3 s.
Gaps == {2, 6}

\* What an out-of-bounds vector read meets: an unmapped page (the process
\* faults) or whatever value lies at that address.
NoMem == [axis |-> 0, axis_trap |-> FALSE, button |-> 0, button_trap |-> FALSE]

\* -------------------------------------------------------------- getVal
InBounds(seq, i) == 0 <= i /\ i < Len(seq)

AxesAt(joy_msg, i, mem) == IF InBounds(joy_msg.axes, i) THEN joy_msg.axes[i + 1] ELSE mem.axis

ButtonsAt(joy_msg, i, mem) ==
  IF InBounds(joy_msg.buttons, i) THEN joy_msg.buttons[i + 1] ELSE mem.button

getValReads(joy_msg, axis_map, scale_map, fieldname) ==
  ~ ( \/ fieldname \notin DOMAIN axis_map
      \/ axis_map[fieldname] = -1
      \/ fieldname \notin DOMAIN scale_map
      \/ Len(joy_msg.axes) <= axis_map[fieldname] )

getVal(joy_msg, axis_map, scale_map, fieldname, mem) ==
  IF \/ fieldname \notin DOMAIN axis_map
     \/ axis_map[fieldname] = -1
     \/ fieldname \notin DOMAIN scale_map
     \/ Len(joy_msg.axes) <= axis_map[fieldname]
  THEN 0
  ELSE AxesAt(joy_msg, axis_map[fieldname], mem) * scale_map[fieldname]

\* the read of line 145 lies outside joy_msg->axes
getValOob(joy_msg, axis_map, scale_map, fieldname) ==
  /\ getValReads(joy_msg, axis_map, scale_map, fieldname)
  /\ ~InBounds(joy_msg.axes, axis_map[fieldname])

\* Abs with the sign test lost.
Abs_Signed(v) == v

Abs(v) == IF v < 0 THEN -v ELSE v

\* ------------------------------------------------------- message values
ZeroTwist == [lx |-> 0, ly |-> 0, lz |-> 0, ax |-> 0, ay |-> 0, az |-> 0]

\* The record one callback works on: the clock it reads, the node's members and
\* function-local statics, and what this callback has done so far.
Frame(clock) ==
  [ now |-> clock, sent_disable_msg_ |-> sent_disable_msg_, pitch |-> pitch, yaw |-> yaw,
    last_time |-> last_time, last_goal_time |-> last_goal_time, goals |-> goals,
    class |-> "none", path |-> "none", cmd_vel |-> <<>>,
    joint_state_msg |-> [stamp |-> 0, name |-> <<>>, position |-> <<>>],
    joint_state |-> <<>>, lookups |-> 0, sent_goals |-> <<>>, cancels |-> 0,
    zero_cmds |-> 0, oob_axes |-> FALSE, oob_buttons |-> FALSE, fault |-> FALSE ]

\* ---------------------------------------------------------- fillCmdVelMsg
\* fillCmdVelMsg reversing the steering on every backward command, whatever
\* inverted_reverse_ says.
fillCmdVelMsg_AlwaysInvert(joy_msg, which_map, mem) ==
  LET lin_x == getVal(joy_msg, cfg.axis_chassis_map, cfg.scale_chassis_map[which_map], "x", mem)
      ang_z == getVal(joy_msg, cfg.axis_gimbal_map, cfg.scale_gimbal_map[which_map], "yaw", mem)
  IN [ lx |-> lin_x,
       ly |-> getVal(joy_msg, cfg.axis_chassis_map, cfg.scale_chassis_map[which_map], "y", mem),
       lz |-> getVal(joy_msg, cfg.axis_chassis_map, cfg.scale_chassis_map[which_map], "z", mem),
       az |-> IF lin_x < 0 THEN -ang_z ELSE ang_z,
       ay |-> getVal(joy_msg, cfg.axis_gimbal_map, cfg.scale_gimbal_map[which_map], "pitch", mem),
       ax |-> getVal(joy_msg, cfg.axis_gimbal_map, cfg.scale_gimbal_map[which_map], "roll", mem) ]

fillCmdVelMsg(joy_msg, which_map, mem) ==
  LET lin_x == getVal(joy_msg, cfg.axis_chassis_map, cfg.scale_chassis_map[which_map], "x", mem)
      ang_z == getVal(joy_msg, cfg.axis_gimbal_map, cfg.scale_gimbal_map[which_map], "yaw", mem)
  IN [ lx |-> lin_x,
       ly |-> getVal(joy_msg, cfg.axis_chassis_map, cfg.scale_chassis_map[which_map], "y", mem),
       lz |-> getVal(joy_msg, cfg.axis_chassis_map, cfg.scale_chassis_map[which_map], "z", mem),
       az |-> IF lin_x < 0 /\ cfg.inverted_reverse THEN -ang_z ELSE ang_z,
       ay |-> getVal(joy_msg, cfg.axis_gimbal_map, cfg.scale_gimbal_map[which_map], "pitch", mem),
       ax |-> getVal(joy_msg, cfg.axis_gimbal_map, cfg.scale_gimbal_map[which_map], "roll", mem) ]

\* some getVal of fillCmdVelMsg reads outside joy_msg->axes
fillCmdVelMsgOob(joy_msg, which_map) ==
  \/ \E f \in {"x", "y", "z"} :
       getValOob(joy_msg, cfg.axis_chassis_map, cfg.scale_chassis_map[which_map], f)
  \/ \E f \in {"yaw", "pitch", "roll"} :
       getValOob(joy_msg, cfg.axis_gimbal_map, cfg.scale_gimbal_map[which_map], f)

\* ------------------------------------------------------ fillJointStateMsg
\* fillJointStateMsg with the time baseline starting at clock zero instead of at
\* the first invocation.
fillJointStateMsg_ZeroBaseline(s, joy_msg, which_map, mem) ==
  LET prev_time == IF s.last_time = NoTime THEN 0 ELSE s.last_time
      current_time == s.now
      dt == current_time - prev_time
      dp == getVal(joy_msg, cfg.axis_gimbal_map, cfg.scale_gimbal_map[which_map], "pitch", mem) * dt
      dy == getVal(joy_msg, cfg.axis_gimbal_map, cfg.scale_gimbal_map[which_map], "yaw", mem) * dt
  IN [s EXCEPT !.last_time = current_time, !.pitch = @ + dp, !.yaw = @ + dy,
               !.joint_state_msg =
                  [stamp |-> current_time,
                   name |-> <<"gimbal_pitch_joint", "gimbal_yaw_joint">>,
                   position |-> <<s.pitch + dp, s.yaw + dy>>]]

fillJointStateMsg(s, joy_msg, which_map, mem) ==
  LET prev_time == IF s.last_time = NoTime THEN s.now ELSE s.last_time
      current_time == s.now
      dt == current_time - prev_time
      s1 == [s EXCEPT !.last_time = current_time]
      oobP == getValOob(joy_msg, cfg.axis_gimbal_map, cfg.scale_gimbal_map[which_map], "pitch")
      oobY == getValOob(joy_msg, cfg.axis_gimbal_map, cfg.scale_gimbal_map[which_map], "yaw")
      dp == getVal(joy_msg, cfg.axis_gimbal_map, cfg.scale_gimbal_map[which_map], "pitch", mem) * dt
      dy == getVal(joy_msg, cfg.axis_gimbal_map, cfg.scale_gimbal_map[which_map], "yaw", mem) * dt
  IN IF oobP /\ mem.axis_trap
     THEN [s1 EXCEPT !.oob_axes = TRUE, !.fault = TRUE]
     ELSE IF oobY /\ mem.axis_trap
     THEN [s1 EXCEPT !.pitch = @ + dp, !.oob_axes = TRUE, !.fault = TRUE]
     ELSE [s1 EXCEPT !.pitch = @ + dp, !.yaw = @ + dy,
                     !.oob_axes = @ \/ oobP \/ oobY,
                     !.joint_state_msg =
                        [stamp |-> current_time,
                         name |-> <<"gimbal_pitch_joint", "gimbal_yaw_joint">>,
                         position |-> <<s.pitch + dp, s.yaw + dy>>]]

\* ----------------------------------------------------- sendGoalPoseAction
\* sendGoalPoseAction with the throttle test left out.
sendGoalPoseAction_NoThrottle(s, joy_msg, which_map, tf_ok, mem) ==
  LET x == getVal(joy_msg, cfg.axis_chassis_map, cfg.scale_chassis_map[which_map], "x", mem)
      y == getVal(joy_msg, cfg.axis_chassis_map, cfg.scale_chassis_map[which_map], "y", mem)
  IN IF Abs(x) <= DEADZONE /\ Abs(y) <= DEADZONE
     THEN [s EXCEPT !.sent_disable_msg_ = TRUE, !.path = "deadzone"]
     ELSE IF ~tf_ok
     THEN [s EXCEPT !.lookups = @ + 1, !.path = "tf_failed"]
     ELSE [s EXCEPT !.lookups = @ + 1, !.path = "submitted",
                    !.sent_goals = Append(@, [x |-> x, y |-> y]),
                    !.goals = Append(@, [time |-> s.now, cancel_requested |-> FALSE]),
                    !.last_goal_time = s.now]

\* sendGoalPoseAction stamping the throttle even when the transform failed.
sendGoalPoseAction_StampOnFailure(s, joy_msg, which_map, tf_ok, mem) ==
  LET x == getVal(joy_msg, cfg.axis_chassis_map, cfg.scale_chassis_map[which_map], "x", mem)
      y == getVal(joy_msg, cfg.axis_chassis_map, cfg.scale_chassis_map[which_map], "y", mem)
      prev_goal_time == IF s.last_goal_time = NoTime THEN s.now ELSE s.last_goal_time
  IN IF Abs(x) <= DEADZONE /\ Abs(y) <= DEADZONE
     THEN [s EXCEPT !.sent_disable_msg_ = TRUE, !.path = "deadzone"]
     ELSE IF ~tf_ok
     THEN [s EXCEPT !.lookups = @ + 1, !.path = "tf_failed", !.last_goal_time = s.now]
     ELSE IF s.now - prev_goal_time >= THROTTLE
     THEN [s EXCEPT !.lookups = @ + 1, !.path = "submitted",
                    !.sent_goals = Append(@, [x |-> x, y |-> y]),
                    !.goals = Append(@, [time |-> s.now, cancel_requested |-> FALSE]),
                    !.last_goal_time = s.now]
     ELSE [s EXCEPT !.lookups = @ + 1, !.path = "throttled",
                    !.last_goal_time = prev_goal_time]

sendGoalPoseAction(s, joy_msg, which_map, tf_ok, mem) ==
  LET x == getVal(joy_msg, cfg.axis_chassis_map, cfg.scale_chassis_map[which_map], "x", mem)
      y == getVal(joy_msg, cfg.axis_chassis_map, cfg.scale_chassis_map[which_map], "y", mem)
      oob == \E f \in {"x", "y"} :
               getValOob(joy_msg, cfg.axis_chassis_map, cfg.scale_chassis_map[which_map], f)
      s1 == [s EXCEPT !.oob_axes = @ \/ oob]
      prev_goal_time == IF s.last_goal_time = NoTime THEN s.now ELSE s.last_goal_time
      current_time == s.now
  IN IF oob /\ mem.axis_trap
     THEN [s1 EXCEPT !.fault = TRUE]
     ELSE IF Abs(x) <= DEADZONE /\ Abs(y) <= DEADZONE
     THEN [s1 EXCEPT !.sent_disable_msg_ = TRUE, !.path = "deadzone"]
     ELSE IF ~tf_ok
     THEN [s1 EXCEPT !.lookups = @ + 1, !.path = "tf_failed"]
     ELSE IF current_time - prev_goal_time >= THROTTLE
     THEN [s1 EXCEPT !.lookups = @ + 1, !.path = "submitted",
                     !.sent_goals = Append(@, [x |-> x, y |-> y]),
                     !.goals = Append(@, [time |-> current_time, cancel_requested |-> FALSE]),
                     !.last_goal_time = current_time]
     ELSE [s1 EXCEPT !.lookups = @ + 1, !.path = "throttled",
                     !.last_goal_time = prev_goal_time]

\* ---------------------------------------------------------- sendCmdVelMsg
\* sendCmdVelMsg publishing the joint state inside the manual branch only.
sendCmdVelMsg_JointInManualOnly(s, joy_msg, which_map, tf_ok, mem) ==
  LET s0 == [s EXCEPT !.class = which_map]
  IN IF cfg.control_mode = "manual_control"
     THEN LET s1 == [s0 EXCEPT !.path = "manual",
                               !.cmd_vel = Append(@, [stamped |-> cfg.publish_stamped_twist,
                                                      twist |-> fillCmdVelMsg(joy_msg, which_map, mem)])]
              s2 == fillJointStateMsg(s1, joy_msg, which_map, mem)
          IN [s2 EXCEPT !.joint_state = Append(@, s2.joint_state_msg),
                        !.sent_disable_msg_ = TRUE]
     ELSE [sendGoalPoseAction(s0, joy_msg, which_map, tf_ok, mem)
             EXCEPT !.sent_disable_msg_ = TRUE]

\* sendCmdVelMsg without the final sent_disable_msg_ = true.
sendCmdVelMsg_NoFlag(s, joy_msg, which_map, tf_ok, mem) ==
  LET s0 == [s EXCEPT !.class = which_map]
      s1 == IF cfg.control_mode = "manual_control"
            THEN [s0 EXCEPT !.path = "manual",
                            !.cmd_vel = Append(@, [stamped |-> cfg.publish_stamped_twist,
                                                   twist |-> fillCmdVelMsg(joy_msg, which_map, mem)])]
            ELSE sendGoalPoseAction(s0, joy_msg, which_map, tf_ok, mem)
      s2 == IF s1.fault THEN s1 ELSE fillJointStateMsg(s1, joy_msg, which_map, mem)
  IN IF s2.fault THEN s2
     ELSE [s2 EXCEPT !.joint_state = Append(@, s2.joint_state_msg)]

\* sendCmdVelMsg publishing the Twist in every control mode, ahead of the goal.
sendCmdVelMsg_AlwaysTwist(s, joy_msg, which_map, tf_ok, mem) ==
  LET s0 == [s EXCEPT !.class = which_map]
      sv == IF fillCmdVelMsgOob(joy_msg, which_map) /\ mem.axis_trap
            THEN [s0 EXCEPT !.oob_axes = TRUE, !.fault = TRUE]
            ELSE [s0 EXCEPT !.path = "manual",
                            !.oob_axes = fillCmdVelMsgOob(joy_msg, which_map),
                            !.cmd_vel = Append(@, [stamped |-> cfg.publish_stamped_twist,
                                                   twist |-> fillCmdVelMsg(joy_msg, which_map, mem)])]
      s1 == IF cfg.control_mode = "manual_control" \/ sv.fault
            THEN sv
            ELSE sendGoalPoseAction(sv, joy_msg, which_map, tf_ok, mem)
      s2 == IF s1.fault THEN s1 ELSE fillJointStateMsg(s1, joy_msg, which_map, mem)
  IN IF s2.fault THEN s2
     ELSE [s2 EXCEPT !.joint_state = Append(@, s2.joint_state_msg),
                     !.sent_disable_msg_ = TRUE]

sendCmdVelMsg(s, joy_msg, which_map, tf_ok, mem) ==
  LET s0 == [s EXCEPT !.class = which_map]
      s1 == IF cfg.control_mode = "manual_control"
            THEN IF fillCmdVelMsgOob(joy_msg, which_map) /\ mem.axis_trap
                 THEN [s0 EXCEPT !.oob_axes = TRUE, !.fault = TRUE]
                 ELSE [s0 EXCEPT !.path = "manual",
                                 !.oob_axes = fillCmdVelMsgOob(joy_msg, which_map),
                                 !.cmd_vel = Append(@, [stamped |-> cfg.publish_stamped_twist,
                                                        twist |-> fillCmdVelMsg(joy_msg, which_map, mem)])]
            ELSE sendGoalPoseAction(s0, joy_msg, which_map, tf_ok, mem)
      s2 == IF s1.fault THEN s1 ELSE fillJointStateMsg(s1, joy_msg, which_map, mem)
  IN IF s2.fault THEN s2
     ELSE [s2 EXCEPT !.joint_state = Append(@, s2.joint_state_msg),
                     !.sent_disable_msg_ = TRUE]

\* -------------------------------------------------------- sendZeroCommand
\* sendZeroCommand with the unstamped branch publishing nothing.
sendZeroCommand_StampedOnly(s) ==
  IF cfg.publish_stamped_twist
  THEN [s EXCEPT !.zero_cmds = @ + 1,
                 !.cmd_vel = Append(@, [stamped |-> TRUE, twist |-> ZeroTwist])]
  ELSE s

\* sendZeroCommand also re-centring the gimbal integrator.
sendZeroCommand_ResetGimbal(s) ==
  LET s1 == IF cfg.control_mode = "auto_control"
            THEN [s EXCEPT !.cancels = @ + 1,
                           !.goals = [i \in DOMAIN @ |-> [@[i] EXCEPT !.cancel_requested = TRUE]]]
            ELSE s
  IN [s1 EXCEPT !.zero_cmds = @ + 1, !.pitch = 0, !.yaw = 0, !.last_time = s.now,
                !.cmd_vel = Append(@, [stamped |-> cfg.publish_stamped_twist, twist |-> ZeroTwist])]

sendZeroCommand(s) ==
  LET s1 == IF cfg.control_mode = "auto_control"
            THEN [s EXCEPT !.cancels = @ + 1,
                           !.goals = [i \in DOMAIN @ |-> [@[i] EXCEPT !.cancel_requested = TRUE]]]
            ELSE s
  IN [s1 EXCEPT !.zero_cmds = @ + 1,
                !.cmd_vel = Append(@, [stamped |-> cfg.publish_stamped_twist, twist |-> ZeroTwist])]

\* ------------------------------------------------------------ joyCallback
TurboPressed(joy_msg) ==
  /\ cfg.enable_turbo_button >= 0
  /\ Len(joy_msg.buttons) > cfg.enable_turbo_button
  /\ joy_msg.buttons[cfg.enable_turbo_button + 1] # 0

\* the second condition reads joy_msg->buttons[enable_button_]
EnableRead(joy_msg) ==
  cfg.require_enable_button /\ Len(joy_msg.buttons) > cfg.enable_button

EnableReadOob(joy_msg) ==
  EnableRead(joy_msg) /\ ~InBounds(joy_msg.buttons, cfg.enable_button)

EnablePressed(joy_msg, mem) ==
  \/ ~cfg.require_enable_button
  \/ /\ Len(joy_msg.buttons) > cfg.enable_button
     /\ ButtonsAt(joy_msg, cfg.enable_button, mem) # 0

\* joyCallback with Disabled samples moving the gimbal time baseline along.
joyCallback_BaselineOnDisable(s, joy_msg, tf_ok, mem) ==
  IF TurboPressed(joy_msg)
  THEN sendCmdVelMsg(s, joy_msg, "turbo", tf_ok, mem)
  ELSE IF EnableReadOob(joy_msg) /\ mem.button_trap
  THEN [s EXCEPT !.oob_buttons = TRUE, !.fault = TRUE]
  ELSE IF EnablePressed(joy_msg, mem)
  THEN sendCmdVelMsg([s EXCEPT !.oob_buttons = EnableReadOob(joy_msg)],
                     joy_msg, "normal", tf_ok, mem)
  ELSE IF s.sent_disable_msg_
  THEN [sendZeroCommand(s) EXCEPT !.class = "disabled", !.path = "stop",
                                  !.oob_buttons = EnableReadOob(joy_msg),
                                  !.last_time = s.now,
                                  !.sent_disable_msg_ = FALSE]
  ELSE [s EXCEPT !.class = "disabled", !.path = "idle",
                 !.last_time = s.now,
                 !.oob_buttons = EnableReadOob(joy_msg)]

joyCallback(s, joy_msg, tf_ok, mem) ==
  IF TurboPressed(joy_msg)
  THEN sendCmdVelMsg(s, joy_msg, "turbo", tf_ok, mem)
  ELSE IF EnableReadOob(joy_msg) /\ mem.button_trap
  THEN [s EXCEPT !.oob_buttons = TRUE, !.fault = TRUE]
  ELSE IF EnablePressed(joy_msg, mem)
  THEN sendCmdVelMsg([s EXCEPT !.oob_buttons = EnableReadOob(joy_msg)],
                     joy_msg, "normal", tf_ok, mem)
  ELSE IF s.sent_disable_msg_
  THEN [sendZeroCommand(s) EXCEPT !.class = "disabled", !.path = "stop",
                                  !.oob_buttons = EnableReadOob(joy_msg),
                                  !.sent_disable_msg_ = FALSE]
  ELSE [s EXCEPT !.class = "disabled", !.path = "idle",
                 !.oob_buttons = EnableReadOob(joy_msg)]

\* ------------------------------------------------------------ environment
\* Memory met by an out-of-bounds read, for the configurations that can make one.
AxisMems ==
  IF \/ \E f \in DOMAIN cfg.axis_chassis_map : cfg.axis_chassis_map[f] < -1
     \/ \E g \in DOMAIN cfg.axis_gimbal_map : cfg.axis_gimbal_map[g] < -1
  THEN [axis : AxisVals, axis_trap : {FALSE}] \cup [axis : {0}, axis_trap : {TRUE}]
  ELSE {[axis |-> 0, axis_trap |-> FALSE]}

ButtonMems ==
  IF cfg.require_enable_button /\ cfg.enable_button < 0
  THEN [button : {0, 1}, button_trap : {FALSE}] \cup [button : {0}, button_trap : {TRUE}]
  ELSE {[button |-> 0, button_trap |-> FALSE]}

Mems ==
  { [axis |-> a.axis, axis_trap |-> a.axis_trap,
     button |-> b.button, button_trap |-> b.button_trap] : a \in AxisMems, b \in ButtonMems }

\* What the transform provider can answer in this configuration.
TfAnswers == IF cfg.control_mode = "manual_control" THEN {TRUE} ELSE BOOLEAN

\* The part of the out-of-bounds memory a callback has read.
MemRead(s, mem) ==
  [axis |-> IF s.oob_axes /\ ~s.fault THEN mem.axis ELSE 0,
   axis_trap |-> s.oob_axes /\ mem.axis_trap,
   button |-> IF s.oob_buttons /\ ~s.fault THEN mem.button ELSE 0,
   button_trap |-> s.oob_buttons /\ mem.button_trap]

NoOut ==
  [ joy |-> [axes |-> <<>>, buttons |-> <<>>], mem |-> NoMem, time |-> 0,
    class |-> "none", path |-> "none", cmd_vel |-> <<>>, joint_state |-> <<>>,
    lookups |-> 0, tf |-> "none", sent_goals |-> <<>>, cancels |-> 0, zero_cmds |-> 0,
    oob_axes |-> FALSE, oob_buttons |-> FALSE, fault |-> FALSE ]

\* What is remembered of the callback before the last one.
Summary(o) == [class |-> o.class, path |-> o.path, time |-> o.time, fault |-> o.fault]

\* ----------------------------------------------------------------- system
Init ==
  /\ cfg \in Configs
  /\ now = 0
  /\ sent_disable_msg_ \in BOOLEAN
  /\ pitch = 0
  /\ yaw = 0
  /\ last_time = NoTime
  /\ last_goal_time = NoTime
  /\ goals = <<>>
  /\ out = NoOut
  /\ prev = Summary(NoOut)
  /\ alive = TRUE
  /\ nsamples = 0

\* The subscription delivers one sample, some time after the previous one; the
\* callback runs to its end or faults; every now() in it reads the new clock.
JoyCallback ==
  /\ alive
  /\ nsamples < MaxSamples
  /\ \E gap \in Gaps : now' = now + gap
  /\ \E joy_msg \in JoyMsgs, tf_ok \in TfAnswers, mem \in Mems :
       \E s \in {joyCallback(Frame(now'), joy_msg, tf_ok, mem)} :
          /\ sent_disable_msg_' = s.sent_disable_msg_
          /\ pitch' = s.pitch
          /\ yaw' = s.yaw
          /\ last_time' = s.last_time
          /\ last_goal_time' = s.last_goal_time
          /\ goals' = s.goals
          /\ alive' = ~s.fault
          /\ out' = [ joy |-> joy_msg, mem |-> MemRead(s, mem), time |-> now',
                      class |-> s.class, path |-> s.path, cmd_vel |-> s.cmd_vel,
                      joint_state |-> s.joint_state, lookups |-> s.lookups,
                      tf |-> IF s.lookups = 0 THEN "none"
                             ELSE IF tf_ok THEN "ok" ELSE "failed",
                      sent_goals |-> s.sent_goals, cancels |-> s.cancels,
                      zero_cmds |-> s.zero_cmds, oob_axes |-> s.oob_axes,
                      oob_buttons |-> s.oob_buttons, fault |-> s.fault ]
          /\ prev' = Summary(out)
          /\ nsamples' = nsamples + 1
  /\ UNCHANGED cfg

Next == JoyCallback

Spec == Init /\ [][Next]_vars

\* ======================================================================
\* Claims
\* ======================================================================
Enabled(o) == o.class \in {"normal", "turbo"} /\ ~o.fault
Delivered == nsamples' = nsamples + 1 /\ alive'
GoalDirected == cfg.control_mode # "manual_control"

\* C1: a Disabled sample that follows an enabled sample publishes exactly one
\* all-zero velocity command (one sendZeroCommand); a Disabled sample that
\* follows a Disabled sample publishes no velocity command.
C1_OneStopPerDisableEdge ==
  (out.class = "disabled" /\ ~out.fault) =>
     /\ Enabled(prev) =>
          /\ out.zero_cmds = 1
          /\ out.cmd_vel = <<[stamped |-> cfg.publish_stamped_twist, twist |-> ZeroTwist]>>
     /\ prev.class = "disabled" => (out.zero_cmds = 0 /\ out.cmd_vel = <<>>)

\* a second Disabled sample in a row has been processed after a stop command
C1_Witness ==
  /\ prev.path = "stop"
  /\ out.class = "disabled"
  /\ out.path = "idle"

\* C2: every enabled sample publishes exactly one joint state; in manual mode it
\* publishes exactly one velocity command and neither looks up a transform nor
\* submits a goal; in goal-directed mode it publishes no velocity command.
C2_OneGimbalPerEnabledSample ==
  Enabled(out) =>
    /\ Len(out.joint_state) = 1
    /\ out.path \in {"manual", "deadzone", "tf_failed", "throttled", "submitted"}
    /\ IF cfg.control_mode = "manual_control"
       THEN /\ out.path = "manual"
            /\ Len(out.cmd_vel) = 1
            /\ out.lookups = 0
            /\ out.sent_goals = <<>>
            /\ out.tf = "none"
       ELSE /\ out.path # "manual"
            /\ out.cmd_vel = <<>>

\* a goal-directed sample was throttled and still published its joint state
C2_Witness ==
  /\ GoalDirected
  /\ out.class = "turbo"
  /\ out.path = "throttled"
  /\ Len(out.joint_state) = 1

\* C3: successive goal submissions are at least 0.25 s apart, and two samples
\* less than 0.25 s apart never both submit a goal.
C3_ThrottleHolds ==
  /\ \A i \in 1..(Len(goals) - 1) : goals[i + 1].time - goals[i].time >= THROTTLE
  /\ (nsamples >= 2 /\ out.time - prev.time < THROTTLE) =>
        ~(prev.path = "submitted" /\ out.path = "submitted")

\* two goals have been submitted in one run
C3_Witness ==
  /\ Len(goals) = 2
  /\ prev.path = "submitted"
  /\ out.path = "submitted"
  /\ out.time - prev.time = 6

\* C4: in goal-directed mode two consecutive enabled samples 0.3 s apart, both
\* outside the deadzone and with a successful transform, each submit a goal: the
\* second always, and the first unless a goal was submitted less than 0.25 s
\* before it.
C4_TwoSubmissionsAtThreeTenths ==
  ( /\ nsamples >= 2
    /\ Enabled(prev) /\ prev.path \in {"throttled", "submitted"}
    /\ Enabled(out) /\ out.path \in {"throttled", "submitted"}
    /\ out.time - prev.time = 6 ) =>
      /\ out.path = "submitted"
      /\ \/ prev.path = "submitted"
         \/ \E i \in DOMAIN goals : /\ goals[i].time <= prev.time
                                    /\ goals[i].time > prev.time - THROTTLE

\* C5: the stop command of a disable edge, in a configuration that routes
\* enabled samples to goal submission, requests cancellation and leaves no
\* submitted goal without a cancellation request; manual mode never requests
\* cancellation.
C5_DisableCancelsEveryGoal ==
  /\ (Enabled(prev) /\ out.path = "stop" /\ GoalDirected) =>
        /\ out.cancels = 1
        /\ \A i \in DOMAIN goals : goals[i].cancel_requested
  /\ ~GoalDirected => out.cancels = 0

\* The classification the enable state machine is said to make.
Classified(joy_msg) ==
  IF /\ cfg.enable_turbo_button >= 0
     /\ cfg.enable_turbo_button < Len(joy_msg.buttons)
     /\ joy_msg.buttons[cfg.enable_turbo_button + 1] # 0
  THEN "turbo"
  ELSE IF \/ ~cfg.require_enable_button
          \/ /\ 0 <= cfg.enable_button
             /\ cfg.enable_button < Len(joy_msg.buttons)
             /\ joy_msg.buttons[cfg.enable_button + 1] # 0
  THEN "normal"
  ELSE "disabled"

\* C6: a sample is Turbo when the turbo button is configured, in range and
\* pressed; otherwise Normal iff no enable button is required or the enable
\* button is in range and pressed; otherwise Disabled.
C6_Classification ==
  (nsamples > 0 /\ ~out.fault) => out.class = Classified(out.joy)

\* The chassis values the goal dispatcher mapped for the last sample.
MappedX == getVal(out.joy, cfg.axis_chassis_map, cfg.scale_chassis_map[out.class], "x", out.mem)
MappedY == getVal(out.joy, cfg.axis_chassis_map, cfg.scale_chassis_map[out.class], "y", out.mem)
WithinDeadzone(v) == -DEADZONE <= v /\ v <= DEADZONE

\* C7: in goal-directed mode an enabled sample whose mapped x and y are both
\* within the 0.1 deadzone submits no goal and asks for no transform; one with x
\* or y beyond it does not take the deadzone branch.
C7_Deadzone ==
  (GoalDirected /\ Enabled(out)) =>
     IF WithinDeadzone(MappedX) /\ WithinDeadzone(MappedY)
     THEN out.path = "deadzone" /\ out.sent_goals = <<>> /\ out.lookups = 0
     ELSE out.path # "deadzone" /\ out.lookups = 1

\* a turbo sample was stopped by the deadzone with x at 0.1 exactly
C7_Witness ==
  /\ GoalDirected
  /\ Enabled(out)
  /\ out.path = "deadzone"
  /\ MappedX = DEADZONE

C9_NoOutOfBoundsRead ==
  ~out.oob_axes /\ ~out.oob_buttons /\ ~out.fault /\ alive

\* The gimbal rates mapped for the sample a step delivers.
MappedPitch(o) == getVal(o.joy, cfg.axis_gimbal_map, cfg.scale_gimbal_map[o.class], "pitch", o.mem)
MappedYaw(o) == getVal(o.joy, cfg.axis_gimbal_map, cfg.scale_gimbal_map[o.class], "yaw", o.mem)

\* C10: the first fillJointStateMsg sets the time baseline and leaves pitch and
\* yaw as they were; every later one adds (mapped rate) * (time since the
\* previous one) to each; the published positions are the new (pitch, yaw).
C10_GimbalIntegration ==
  [][ (Delivered /\ Enabled(out')) =>
        /\ last_time' = now'
        /\ IF last_time = NoTime
           THEN pitch' = pitch /\ yaw' = yaw
           ELSE /\ pitch' = pitch + MappedPitch(out') * (now' - last_time)
                /\ yaw' = yaw + MappedYaw(out') * (now' - last_time)
        /\ Len(out'.joint_state) = 1
        /\ out'.joint_state[1].position = <<pitch', yaw'>> ]_vars

\* a constant yaw rate of 0.5 over steps of 0.1 s and 0.3 s: 0.5*2 + 0.5*6 ticks
C10_Witness ==
  /\ nsamples = 3
  /\ Enabled(prev) /\ Enabled(out)
  /\ out.time = 10 /\ prev.time = 4 /\ last_time = 10
  /\ MappedYaw(out) = 50
  /\ yaw = 50 * 2 + 50 * 6

\* C11: a Disabled sample, the one that sends the stop command included, leaves
\* pitch, yaw and the gimbal time baseline as they were and publishes no joint
\* state.
C11_DisabledKeepsGimbalState ==
  [][ (Delivered /\ out'.class = "disabled") =>
        /\ pitch' = pitch
        /\ yaw' = yaw
        /\ last_time' = last_time
        /\ out'.joint_state = <<>> ]_vars

\* a stop command was sent while the integrator held a non-zero yaw
C11_Witness ==
  /\ out.class = "disabled"
  /\ out.path = "stop"
  /\ yaw # 0
  /\ last_time # NoTime /\ last_time < out.time

\* C12: after any processed sample sent_disable_msg_ is true iff the sample was
\* Normal or Turbo, on every path.
C12_FlagIffEnabled ==
  (nsamples > 0 /\ ~out.fault) =>
     /\ out.class \in {"normal", "turbo", "disabled"}
     /\ sent_disable_msg_ <=> Enabled(out)

\* a stop command followed a goal-directed sample that took the deadzone branch
C12_Witness ==
  /\ prev.path = "deadzone"
  /\ out.path = "stop"
  /\ out.zero_cmds = 1
  /\ ~sent_disable_msg_

\* C13: last_goal_time changes only in a step that submits a goal, and then
\* becomes that step's clock reading; every other step leaves it as it was.
C13_ThrottleStampOnlyOnSubmission ==
  [][ Delivered =>
        IF out'.path = "submitted"
        THEN last_goal_time' = now'
        ELSE last_goal_time' = last_goal_time ]_vars

MappedChassis(o, f) ==
  getVal(o.joy, cfg.axis_chassis_map, cfg.scale_chassis_map[o.class], f, o.mem)
MappedGimbal(o, f) ==
  getVal(o.joy, cfg.axis_gimbal_map, cfg.scale_gimbal_map[o.class], f, o.mem)

\* C14: the velocity command of an enabled manual-mode sample carries ang.z equal
\* to minus the mapped gimbal yaw when inverted_reverse is set and the mapped
\* lin.x is negative, and equal to the mapped gimbal yaw otherwise; the other
\* five fields are the mapped values.
C14_ReverseSteering ==
  (~GoalDirected /\ Enabled(out)) =>
     /\ Len(out.cmd_vel) = 1
     /\ LET t == out.cmd_vel[1].twist
        IN /\ t.lx = MappedChassis(out, "x")
           /\ t.ly = MappedChassis(out, "y")
           /\ t.lz = MappedChassis(out, "z")
           /\ t.ax = MappedGimbal(out, "roll")
           /\ t.ay = MappedGimbal(out, "pitch")
           /\ t.az = IF cfg.inverted_reverse /\ MappedChassis(out, "x") < 0
                     THEN -MappedGimbal(out, "yaw")
                     ELSE MappedGimbal(out, "yaw")

\* a backward command with inverted_reverse set went out with its yaw negated
C14_Witness ==
  /\ ~GoalDirected /\ Enabled(out) /\ cfg.inverted_reverse
  /\ Len(out.cmd_vel) = 1
  /\ out.cmd_vel[1].twist.lx = -50
  /\ MappedGimbal(out, "yaw") = 50
  /\ out.cmd_vel[1].twist.az = -50

Channels ==
  { [axis_map |-> cfg.axis_chassis_map, scale_map |-> cfg.scale_chassis_map[p], fieldname |-> f] :
      p \in {"normal", "turbo"}, f \in {"x", "y", "z", "yaw", "pitch", "roll"} }
  \cup
  { [axis_map |-> cfg.axis_gimbal_map, scale_map |-> cfg.scale_gimbal_map[p], fieldname |-> f] :
      p \in {"normal", "turbo"}, f \in {"x", "y", "z", "yaw", "pitch", "roll"} }

\* C15: on the sample of an enabled callback getVal gives 0 for a channel that is
\* absent from the axis map, mapped to -1, absent from the scale profile or
\* mapped to an index >= the number of axes; for any other channel it gives
\* axes[index] * scale[channel], read from the sample.
C15_getValContract ==
  (nsamples > 0 /\ out.class \in {"normal", "turbo"}) =>
     \A c \in Channels :
        LET f == c.fieldname
        IN IF \/ f \notin DOMAIN c.axis_map
              \/ c.axis_map[f] = -1
              \/ f \notin DOMAIN c.scale_map
              \/ c.axis_map[f] >= Len(out.joy.axes)
           THEN getVal(out.joy, c.axis_map, c.scale_map, f, out.mem) = 0
           ELSE /\ InBounds(out.joy.axes, c.axis_map[f])
                /\ ~out.fault
                /\ getVal(out.joy, c.axis_map, c.scale_map, f, out.mem)
                     = out.joy.axes[c.axis_map[f] + 1] * c.scale_map[f]

\* C16: an enabled sample that follows a Disabled sample, itself preceded by an
\* enabled one, adds rate * (time since that earlier enabled sample) to pitch
\* and yaw: the Disabled interval is part of dt, which is longer than the gap to
\* the sample just before.
C16_DisabledIntervalIntegrated ==
  [][ ( /\ Delivered /\ Enabled(out')
        /\ out.class = "disabled" /\ ~out.fault
        /\ Enabled(prev) ) =>
        LET disabled_duration == out.time - prev.time
            sample_gap == now' - out.time
        IN /\ disabled_duration > 0
           /\ yaw' = yaw + MappedYaw(out') * (disabled_duration + sample_gap)
           /\ pitch' = pitch + MappedPitch(out') * (disabled_duration + sample_gap) ]_vars

\* enabled at 0.1 s, Disabled at 0.2 s, enabled again at 0.5 s with yaw rate 0.5:
\* the yaw has moved by 0.5 * 0.4, not by 0.5 * 0.3
C16_Witness ==
  /\ nsamples = 3
  /\ prev.class = "disabled" /\ prev.time = 4
  /\ Enabled(out) /\ out.time = 10
  /\ MappedYaw(out) = 50
  /\ last_time = 10
  /\ yaw = 50 * 8

\* C17: in goal-directed mode a callback that publishes a velocity command is a
\* Disabled one sending its stop command, and the command is the single all-zero
\* one; an enabled callback publishes no velocity command.
C17_GoalModeOnlyStops ==
  GoalDirected =>
     /\ out.cmd_vel # <<>> =>
          /\ out.class = "disabled" /\ out.path = "stop"
          /\ Len(out.cmd_vel) = 1
          /\ out.cmd_vel[1].twist = ZeroTwist
     /\ out.class \in {"normal", "turbo"} => out.cmd_vel = <<>>

\* a goal was submitted with the stick pushed, then the button was released and
\* the zero command went out
C17_Witness ==
  /\ GoalDirected
  /\ goals # <<>>
  /\ prev.path = "submitted"
  /\ out.path = "stop"
  /\ out.cmd_vel = <<[stamped |-> cfg.publish_stamped_twist, twist |-> ZeroTwist]>>

====
